---- MODULE Spec2Model ----
(***************************************************************************)
(* graphtools/base.py: the Data layer (dimensionality reduction), the      *)
(* BaseGraph layer (lazily cached kernel K and diffusion operator P) and   *)
(* the DataGraph layer (out-of-sample extension), modelled as one instance *)
(* of a concrete DataGraph subclass whose two hooks (build_kernel,         *)
(* build_kernel_to_data) are the environment.                              *)
(*                                                                         *)
(* Numbers.  Kernel entries and gamma are fixed-point: a stored integer x  *)
(* stands for the real number x/2, so that (K + K.T)/2 and gamma = 0.5 are *)
(* exact.  Fix(v) is the stored form of the integer v.  A Python attribute *)
(* that is absent (AttributeError on read) or holds None is <<>>; a        *)
(* present value v is <<v>>.                                               *)
(***************************************************************************)
EXTENDS Integers, Sequences, FiniteSets, TLC

VARIABLES
    phase,          \* "new": no instance yet; "live": construction returned;
                    \* "failed": construction raised, there is no instance
    data,           \* self.data      [shape, layout]
    n_pca,          \* self.n_pca
    random_state,   \* self.random_state
    data_nu,        \* self.data_nu   [shape, layout]
    data_pca,       \* self.data_pca  (absent when no reduction was fitted)
    kernel_symm,    \* self.kernel_symm
    gamma,          \* self.gamma
    _kernel,        \* self._kernel   (the K cache)
    _diff_op,       \* self._diff_op  (the P cache)
    build_calls,    \* invocations of the build_kernel hook on this instance
    build_returns,  \* those of them after which a kernel was stored
    first_kernel,   \* what the first store into self._kernel stored
    last            \* the last call made by the client and how it ended

vars == <<phase, data, n_pca, random_state, data_nu, data_pca, kernel_symm,
          gamma, _kernel, _diff_op, build_calls, build_returns, first_kernel,
          last>>

fields == <<data, n_pca, random_state, data_nu, data_pca, kernel_symm, gamma,
            _kernel, _diff_op>>

----------------------------------------------------------------------------
\* Bounds of the model.

\* n_samples: rows of the data, order of the kernel
N == 2
\* largest ambient feature count
MaxFeatures == 3
\* largest sum of the entries of a kernel returned by a hook
MaxMass == 4
\* most invocations of build_kernel on one instance
MaxCalls == 2

----------------------------------------------------------------------------
\* Values.

None == <<>>
Some(v) == <<v>>

\* F applied to the value of x, x being evaluated once
With(x, F(_)) == CHOOSE y \in {F(v) : v \in {x}} : TRUE

Fix(v) == 2 * v
Half(x) == x \div 2

\* outcome of a call: a returned value, or a raised exception with its
\* message: the text followed by the values formatted into it, and <<>> for an
\* exception raised without arguments, as in a bare `raise ValueError`
Ok(v) == [ok |-> TRUE, val |-> v, err |-> "", msg |-> <<>>]
Raise(e, m) == [ok |-> FALSE, val |-> None, err |-> e, msg |-> m]

\* kernel_symm: Python None is SymmNone
SymmNone == "None"
ValidSymm == {"+", "*", "gamma", SymmNone}

\* gamma: None, a number (fixed-point) or a value that is no number
GNone == [kind |-> "none", v |-> 0]
GNum(x) == [kind |-> "num", v |-> x]
GStr == [kind |-> "str", v |-> 0]

\* 0.5, the default of gamma
GammaDefault == Half(Fix(1))

----------------------------------------------------------------------------
\* Matrices: sequences of rows.

Rows(M) == Len(M)
Cols(M) == Len(M[1])
T(M) == [j \in 1..Cols(M) |-> [i \in 1..Rows(M) |-> M[i][j]]]
Abs(x) == IF x < 0 THEN -x ELSE x
Min2(a, b) == IF a <= b THEN a ELSE b
Max2(a, b) == IF a >= b THEN a ELSE b
Pointwise(Op(_, _), A, B) ==
    [i \in 1..Rows(A) |-> [j \in 1..Cols(A) |-> Op(A[i][j], B[i][j])]]
Map(Op(_), A) == [i \in 1..Rows(A) |-> [j \in 1..Cols(A) |-> Op(A[i][j])]]

RECURSIVE SeqSum(_)
SeqSum(s) == IF s = <<>> THEN 0 ELSE Head(s) + SeqSum(Tail(s))

RECURSIVE SeqMax(_)
SeqMax(s) == IF Len(s) = 1 THEN s[1] ELSE Max2(Head(s), SeqMax(Tail(s)))

\* M.max(): the largest entry
MatMax(M) == SeqMax([i \in 1..Rows(M) |-> SeqMax(M[i])])
\* M.sum(axis=1) and M.sum(axis=0)
RowSums(M) == [i \in 1..Rows(M) |-> SeqSum(M[i])]
ColSums(M) == RowSums(T(M))

----------------------------------------------------------------------------
\* The Data layer.

Layouts == {"dense", "csr", "coo"}
issparse(X) == X.layout # "dense"
n_features(X) == X.shape[2]

\* Data._check_data
_check_data(X) ==
    IF Len(X.shape) # 2
    THEN Raise("ValueError", <<"Expected 2D array", X.shape>>)
    ELSE Ok(None)

\* A faulty Data.__init__ that keeps an n_pca equal to the feature count.
init_n_pca_strict(X, n) ==
    IF n # None /\ n_features(X) < n[1]
    THEN [n_pca |-> None, warns |-> {"Cannot perform PCA"}]
    ELSE [n_pca |-> n, warns |-> {}]

\* Data.__init__, the n_pca it stores and the warning it emits
init_n_pca(X, n) ==
    IF n # None /\ n_features(X) <= n[1]
    THEN [n_pca |-> None, warns |-> {"Cannot perform PCA"}]
    ELSE [n_pca |-> n, warns |-> {}]

\* Data._reduce_data: the fields it sets and the reduced data it returns;
\* fit_ok is whether the library's fit of the operator returns
_reduce_data(X, n, fit_ok) ==
    IF n # None /\ n[1] < n_features(X)
    THEN LET X1 == IF X.layout = "coo" THEN [X EXCEPT !.layout = "csr"] ELSE X
             op == [kind |-> IF issparse(X) THEN "TruncatedSVD" ELSE "PCA",
                    n_components |-> n[1]]
         IN  IF fit_ok
             THEN [res |-> Ok(None), data |-> X1, data_pca |-> Some(op),
                   data_nu |-> [shape |-> <<X.shape[1], n[1]>>,
                                layout |-> "dense"]]
             ELSE [res |-> Raise("ValueError", <<"fit failed">>), data |-> X1,
                   data_pca |-> Some(op), data_nu |-> None]
    ELSE [res |-> Ok(None), data |-> X, data_pca |-> None,
          data_nu |-> IF X.layout = "coo"
                      THEN [X EXCEPT !.layout = "csr"] ELSE X]

----------------------------------------------------------------------------
\* The kernel layer.

\* A faulty _check_symmetrization that only looks at kernel_symm: gamma is
\* neither validated, defaulted nor made to select the 'gamma' policy.
_check_symmetrization_ignoring_gamma(ks, g) ==
    IF ks \notin ValidSymm
    THEN [res |-> Raise("ValueError", <<"kernel_symm not recognized">>),
          kernel_symm |-> ks, gamma |-> g, warns |-> {}]
    ELSE [res |-> Ok(None), kernel_symm |-> ks, gamma |-> g, warns |-> {}]

\* BaseGraph._check_symmetrization: the outcome, the fields it leaves and
\* the warnings it emits
_check_symmetrization(ks, g) ==
    IF ks \notin ValidSymm
    THEN [res |-> Raise("ValueError", <<"kernel_symm not recognized">>),
          kernel_symm |-> ks, gamma |-> g, warns |-> {}]
    ELSE LET coerce == ks # "gamma" /\ g # GNone
             ks1 == IF coerce THEN "gamma" ELSE ks
             w1 == IF coerce THEN {"Setting kernel_symm='gamma'"} ELSE {}
         IN  IF ks1 = "gamma"
             THEN IF g = GNone
                  THEN [res |-> Ok(None), kernel_symm |-> ks1,
                        gamma |-> GNum(GammaDefault),
                        warns |-> w1 \cup {"Defaulting to gamma=0.5"}]
                  ELSE IF g.kind # "num" \/ g.v < Fix(0) \/ g.v > Fix(1)
                  THEN [res |-> Raise("ValueError", <<"gamma not recognized">>),
                        kernel_symm |-> ks1, gamma |-> g, warns |-> w1]
                  ELSE [res |-> Ok(None), kernel_symm |-> ks1, gamma |-> g,
                        warns |-> w1]
             ELSE [res |-> Ok(None), kernel_symm |-> ks1, gamma |-> g,
                   warns |-> w1]

\* utils.elementwise_minimum, utils.elementwise_maximum
elementwise_minimum(A, B) == Pointwise(Min2, A, B)
elementwise_maximum(A, B) == Pointwise(Max2, A, B)

Plus(a, b) == a + b
Minus(a, b) == a - b
\* the product of two fixed-point numbers
Times(a, b) == Half(a * b)

\* A faulty symmetrize_kernel that forgets the transpose in the '+' policy
\* and so returns the raw kernel.
symmetrize_kernel_untransposed(K, ks, g) ==
    CASE ks = "+" ->
           Ok([K EXCEPT !.m = Map(Half, Pointwise(Plus, K.m, K.m))])
      [] ks = "*" ->
           IF K.layout = "dense"
           THEN Raise("AttributeError", <<"no attribute 'multiply'">>)
           ELSE Ok([K EXCEPT !.m = Pointwise(Times, K.m, T(K.m))])
      [] ks = "gamma" ->
           LET lo == elementwise_minimum(K.m, T(K.m))
               hi == elementwise_maximum(K.m, T(K.m))
               Blend(a, b) == Times(g.v, a) + Times(Fix(1) - g.v, b)
           IN  Ok([K EXCEPT !.m = Pointwise(Blend, lo, hi)])
      [] ks = SymmNone -> Ok(K)
      [] OTHER -> Raise("ValueError", <<"Expected kernel_symm in">>)

\* BaseGraph.symmetrize_kernel on a kernel [layout, m]; a dense array has no
\* method multiply
symmetrize_kernel(K, ks, g) ==
    CASE ks = "+" ->
           Ok([K EXCEPT !.m = Map(Half, Pointwise(Plus, K.m, T(K.m)))])
      [] ks = "*" ->
           IF K.layout = "dense"
           THEN Raise("AttributeError", <<"no attribute 'multiply'">>)
           ELSE Ok([K EXCEPT !.m = Pointwise(Times, K.m, T(K.m))])
      [] ks = "gamma" ->
           LET lo == elementwise_minimum(K.m, T(K.m))
               hi == elementwise_maximum(K.m, T(K.m))
               Blend(a, b) == Times(g.v, a) + Times(Fix(1) - g.v, b)
           IN  Ok([K EXCEPT !.m = Pointwise(Blend, lo, hi)])
      [] ks = SymmNone -> Ok(K)
      [] OTHER -> Raise("ValueError", <<"Expected kernel_symm in">>)

\* 1 / 1e-5
SymTolInverse == 100000

\* (kernel - kernel.T).max() > 1e-5
asymmetric(kernel) ==
    MatMax(Pointwise(Minus, kernel.m, T(kernel.m))) * SymTolInverse > Fix(1)

\* np.any(kernel.diagonal == 0): kernel.diagonal is the bound method, which
\* the code does not call; a method object is not equal to 0
any_diagonal_eq_0(kernel) == FALSE

\* BaseGraph._build_kernel, after symmetrize_kernel ended as s: the two checks
checked_kernel(s) ==
    IF ~s.ok THEN [res |-> s, warns |-> {}]
    ELSE [res |-> s,
          warns |->
            (IF asymmetric(s.val) THEN {"K should be symmetric"} ELSE {})
            \cup
            (IF any_diagonal_eq_0(s.val)
             THEN {"K should have a non-zero diagonal"} ELSE {})]

\* BaseGraph._build_kernel; h is the outcome of the build_kernel hook
_build_kernel(h, ks, g) ==
    IF ~h.ok THEN [res |-> h, warns |-> {}]
    ELSE With(symmetrize_kernel(h.val, ks, g), checked_kernel)

\* BaseGraph.K, the except branch: b is how _build_kernel ended; the
\* assignment to self._kernel happens only if it returned
K_store(b) ==
    [cache |-> IF b.res.ok THEN Some(b.res.val) ELSE None,
     res |-> b.res, warns |-> b.warns, calls |-> 1]

\* A faulty K that never reads the cache: every access builds the kernel.
K_rebuilding(cache, h, ks, g) == With(_build_kernel(h, ks, g), K_store)

\* BaseGraph.K (and its synonym kernel): the cache after the access, the
\* outcome, the warnings and the number of hook invocations
K(cache, h, ks, g) ==
    IF cache # None
    THEN [cache |-> cache, res |-> Ok(cache[1]), warns |-> {}, calls |-> 0]
    ELSE With(_build_kernel(h, ks, g), K_store)

\* sklearn.preprocessing.normalize(X, 'l1', axis=1): each row divided by the
\* sum of its absolute values, a zero row left as it is.  An entry of the
\* result is the fraction <<numerator, denominator>>.
row_norm(row) == SeqSum([j \in 1..Len(row) |-> Abs(row[j])])
normalize(X) ==
    [i \in 1..Rows(X) |-> [j \in 1..Cols(X) |->
        <<X[i][j], IF row_norm(X[i]) = 0 THEN Fix(1) ELSE row_norm(X[i])>>]]

\* A faulty P that normalises along axis 0: columns sum to 1 instead of rows.
P_store_axis0(k) ==
    IF ~k.res.ok
    THEN [diff_op |-> None, cache |-> k.cache, res |-> k.res,
          warns |-> k.warns, calls |-> k.calls]
    ELSE [diff_op |-> Some(T(normalize(T(k.res.val.m)))), cache |-> k.cache,
          res |-> Ok(T(normalize(T(k.res.val.m)))), warns |-> k.warns,
          calls |-> k.calls]

\* BaseGraph.P, the except branch: k is how the read of self.kernel ended
P_store(k) ==
    IF ~k.res.ok
    THEN [diff_op |-> None, cache |-> k.cache, res |-> k.res,
          warns |-> k.warns, calls |-> k.calls]
    ELSE [diff_op |-> Some(normalize(k.res.val.m)), cache |-> k.cache,
          res |-> Ok(normalize(k.res.val.m)), warns |-> k.warns,
          calls |-> k.calls]

\* BaseGraph.P (and its synonym diff_op): both caches after the access
P(dcache, kcache, h, ks, g) ==
    IF dcache # None
    THEN [diff_op |-> dcache, cache |-> kcache, res |-> Ok(dcache[1]),
          warns |-> {}, calls |-> 0]
    ELSE With(K(kcache, h, ks, g), P_store)

\* the matrix diff_aff returns for kernel matrix m: entry (i, j) is m[i][j]
\* divided by the square roots of row degree i and column degree j, kept as
\* the triple <<m[i][j], row degree, column degree>>
affinity(m) ==
    [i \in 1..Rows(m) |-> [j \in 1..Cols(m) |->
        <<m[i][j], RowSums(m)[i], ColSums(m)[j]>>]]

\* BaseGraph.diff_aff after its first read of self.kernel ended as k
diff_aff_of(k) ==
    [cache |-> k.cache,
     res |-> IF k.res.ok THEN Ok(affinity(k.res.val.m)) ELSE k.res,
     warns |-> k.warns, calls |-> k.calls]

\* BaseGraph.diff_aff
diff_aff(kcache, h, ks, g) == With(K(kcache, h, ks, g), diff_aff_of)

----------------------------------------------------------------------------
\* The environment: what the build_kernel hook does when it is invoked.

KernelLayouts == {"dense", "csr"}
KernelEntries == {Fix(0), Fix(1), Fix(2)}

\* square kernels of order N with non-negative entries
RawKernels ==
    {[layout |-> l, m |-> m] :
        l \in KernelLayouts,
        m \in {x \in [1..N -> [1..N -> KernelEntries]] :
                  SeqSum(RowSums(x)) <= Fix(MaxMass)}}

\* two of them: the identity, and an asymmetric kernel with a zero on the
\* diagonal
FewKernels ==
    {[layout |-> "csr",
      m |-> [i \in 1..N |-> [j \in 1..N |-> IF i = j THEN Fix(1) ELSE Fix(0)]]],
     [layout |-> "dense",
      m |-> [i \in 1..N |-> [j \in 1..N |->
                IF i < j THEN Fix(2) ELSE IF i = 1 THEN Fix(1) ELSE Fix(0)]]]}

\* the hook raises, or returns one of the kernels
HookOutcomes(kernels) ==
    {Raise("RuntimeError", <<"build_kernel failed">>)} \cup {Ok(k) : k \in kernels}

\* no hook outcome is drawn where the hook cannot be invoked
NoHook == Raise("", <<>>)

----------------------------------------------------------------------------
\* Construction.

\* the record of a call: its arguments, its outcome, the warnings it emitted,
\* how often it invoked a hook and how the hook answered (NoHook if it was
\* not invoked)
Called(op, a, r, w, c, h) ==
    [op |-> op, args |-> a, res |-> r, warns |-> w, calls |-> c,
     hook |-> IF c = 0 THEN NoHook ELSE h]

\* the client holds no result: it has made no call, or has moved on from
\* the last one
Idle == Called("", None, Ok(None), {}, 0, NoHook)

\* the client, single-threaded, is free to make its next call on the instance
Ready == phase = "live" /\ last = Idle

\* the client moves on from the call that has just ended
Continue ==
    /\ phase = "live"
    /\ last # Idle
    /\ last' = Idle
    /\ UNCHANGED <<phase, data, n_pca, random_state, data_nu, data_pca,
                   kernel_symm, gamma, _kernel, _diff_op, build_calls,
                   build_returns, first_kernel>>

\* a construction that raised r after warnings w and c hook invocations
failed(r, w, c) ==
    [res |-> r, warns |-> w, calls |-> c, data |-> None, n_pca |-> None,
     random_state |-> None, data_nu |-> None, data_pca |-> None,
     kernel_symm |-> None, gamma |-> None, _kernel |-> None]

\* BaseGraph.__init__, `if initialize: self.K`
init_K(initialize, h, ks, g) ==
    IF initialize THEN K(None, h, ks, g)
    ELSE [cache |-> None, res |-> Ok(None), warns |-> {}, calls |-> 0]

\* the instance, once every step of the construction has been taken
init_done(a, np, red, sym, k) ==
    IF ~k.res.ok
    THEN failed(k.res, np.warns \cup sym.warns \cup k.warns, k.calls)
    ELSE [res |-> Ok(None), warns |-> np.warns \cup sym.warns \cup k.warns,
          calls |-> k.calls, data |-> red.data, n_pca |-> np.n_pca,
          random_state |-> a.random_state, data_nu |-> red.data_nu,
          data_pca |-> red.data_pca, kernel_symm |-> sym.kernel_symm,
          gamma |-> sym.gamma, _kernel |-> k.cache]

\* BaseGraph.__init__
BaseGraph_init(a, h, np, red, sym) ==
    IF ~sym.res.ok THEN failed(sym.res, np.warns \cup sym.warns, 0)
    ELSE LET done(k) == init_done(a, np, red, sym, k)
         IN  With(init_K(a.initialize, h, sym.kernel_symm, sym.gamma), done)

\* Data.__init__ from the call of _reduce_data on
Data_init_reduced(a, h, np, red) ==
    IF ~red.res.ok THEN failed(red.res, np.warns, 0)
    ELSE BaseGraph_init(a, h, np, red,
                        _check_symmetrization(a.kernel_symm, a.gamma))

\* Data.__init__ after _check_data
Data_init(a, h, np) ==
    Data_init_reduced(a, h, np, _reduce_data(a.data, np.n_pca, a.fit_ok))

\* DataGraph.__init__ -> Data.__init__ -> BaseGraph.__init__ -> Base.__init__
\* on arguments a; h is the outcome of the build_kernel hook if it is invoked.
\* The result holds the outcome and the fields of the instance.
DataGraph_init(a, h) ==
    IF ~_check_data(a.data).ok THEN failed(_check_data(a.data), {}, 0)
    ELSE Data_init(a, h, init_n_pca(a.data, a.n_pca))

\* the state after a construction that ended as r
Constructed(a, h, r) ==
    /\ last' = Called("__init__", a, r.res, r.warns, r.calls, h)
    /\ _diff_op' = None
    /\ IF r.res.ok
       THEN /\ phase' = "live"
            /\ data' = r.data
            /\ n_pca' = r.n_pca
            /\ random_state' = r.random_state
            /\ data_nu' = r.data_nu
            /\ data_pca' = r.data_pca
            /\ kernel_symm' = r.kernel_symm
            /\ gamma' = r.gamma
            /\ _kernel' = r._kernel
            /\ build_calls' = r.calls
            /\ build_returns' = r.calls
            /\ first_kernel' = r._kernel
       ELSE /\ phase' = "failed"
            /\ UNCHANGED <<data, n_pca, random_state, data_nu, data_pca,
                           kernel_symm, gamma, _kernel, build_calls,
                           build_returns, first_kernel>>

\* the client constructs the instance
Construct(a, h) ==
    /\ phase = "new"
    /\ \E r \in {DataGraph_init(a, h)} : Constructed(a, h, r)

----------------------------------------------------------------------------
\* Accessors of the kernel layer.

\* the state after an access to the kernel layer that ended as r
Accessed(op, h, r) ==
    /\ _kernel' = r.cache
    /\ build_calls' = build_calls + r.calls
    /\ build_returns' = IF _kernel = None /\ r.cache # None
                        THEN build_returns + 1 ELSE build_returns
    /\ first_kernel' = IF first_kernel = None THEN r.cache ELSE first_kernel
    /\ last' = Called(op, None, r.res, r.warns, r.calls, h)
    /\ UNCHANGED <<phase, data, n_pca, random_state, data_nu, data_pca,
                   kernel_symm, gamma>>

\* the client reads graph.K or graph.kernel
Get_K(h) ==
    /\ Ready
    /\ _kernel = None => build_calls < MaxCalls
    /\ \E r \in {K(_kernel, h, kernel_symm, gamma)} : Accessed("K", h, r)
    /\ UNCHANGED _diff_op

\* the state after a read of graph.P that ended as r
Accessed_P(h, r) ==
    /\ Accessed("P", h, r)
    /\ _diff_op' = r.diff_op

\* the client reads graph.P or graph.diff_op
Get_P(h) ==
    /\ Ready
    /\ (_diff_op = None /\ _kernel = None) => build_calls < MaxCalls
    /\ \E r \in {P(_diff_op, _kernel, h, kernel_symm, gamma)} :
          Accessed_P(h, r)

\* the client reads graph.diff_aff
Get_diff_aff(h) ==
    /\ Ready
    /\ _kernel = None => build_calls < MaxCalls
    /\ \E r \in {diff_aff(_kernel, h, kernel_symm, gamma)} :
          Accessed("diff_aff", h, r)
    /\ UNCHANGED _diff_op

----------------------------------------------------------------------------
\* Parameters.

ParamNames == {"n_pca", "random_state", "gamma", "kernel_symm"}

\* BaseGraph.set_params (Base.set_params, which it calls last, returns self)
BaseGraph_set_params(p, ks, g) ==
    IF "gamma" \in p.names /\ p.gamma # g
    THEN Raise("ValueError", <<"Cannot update gamma">>)
    ELSE IF "kernel_symm" \in p.names /\ p.kernel_symm # ks
    THEN Raise("ValueError", <<"Cannot update kernel_symm">>)
    ELSE Ok(None)

\* Data.set_params, which a DataGraph inherits and which calls
\* BaseGraph.set_params through super(): the outcome and self.random_state
set_params(p, n, rs, ks, g) ==
    IF "n_pca" \in p.names /\ p.n_pca # n
    THEN [res |-> Raise("ValueError", <<"Cannot update n_pca">>),
          random_state |-> rs]
    ELSE [res |-> BaseGraph_set_params(p, ks, g),
          random_state |-> IF "random_state" \in p.names
                           THEN p.random_state ELSE rs]

\* the client calls graph.set_params(**p)
Call_set_params(p) ==
    /\ Ready
    /\ \E r \in {set_params(p, n_pca, random_state, kernel_symm, gamma)} :
          /\ random_state' = r.random_state
          /\ last' = Called("set_params", p, r.res, {}, 0, NoHook)
    /\ UNCHANGED <<phase, data, n_pca, data_nu, data_pca, kernel_symm, gamma,
                   _kernel, _diff_op, build_calls, build_returns,
                   first_kernel>>

----------------------------------------------------------------------------
\* Transform and extension.  A matrix passed by the client is its shape and
\* its origin; `by` tells the client's matrix from the operator's output.

\* Data.transform.  With an operator, the library's transform raises a
\* ValueError on any Y that is not 2-D with the ambient feature count, and
\* the last except clause turns it into the descriptive error.  Without one,
\* the read of self.data_pca raises AttributeError and the ValueError raised
\* inside that handler is not caught by the sibling except clause.
transform(Y, pca, X) ==
    IF pca # None
    THEN IF Len(Y.shape) = 2 /\ Y.shape[2] = n_features(X)
         THEN Ok([shape |-> <<Y.shape[1], pca[1].n_components>>,
                  by |-> "data_pca"])
         ELSE Raise("ValueError",
                    <<"data of shape {} cannot be transformed to graph built on data of shape {}",
                      Y.shape, X.shape>>)
    ELSE IF Len(Y.shape) < 2 THEN Raise("ValueError", <<>>)
    ELSE IF Y.shape[2] # n_features(X) THEN Raise("ValueError", <<>>)
    ELSE Ok(Y)

\* A faulty _check_extension_shape that returns a Y of ambient feature
\* count as it is, without transform.
_check_extension_shape_untransformed(Y, pca, X, Xnu) ==
    IF Len(Y.shape) # 2
    THEN Raise("ValueError", <<"Expected a 2D matrix. Y has shape {}", Y.shape>>)
    ELSE IF Y.shape[2] = Xnu.shape[2] THEN Ok(Y)
    ELSE IF Y.shape[2] = X.shape[2] THEN Ok(Y)
    ELSE IF X.shape[2] # Xnu.shape[2]
    THEN Raise("ValueError", <<"Y must be of shape either (n, {}) or (n, {})",
                               X.shape[2], Xnu.shape[2]>>)
    ELSE Raise("ValueError", <<"Y must be of shape (n, {})", X.shape[2]>>)

\* DataGraph._check_extension_shape
_check_extension_shape(Y, pca, X, Xnu) ==
    IF Len(Y.shape) # 2
    THEN Raise("ValueError", <<"Expected a 2D matrix. Y has shape {}", Y.shape>>)
    ELSE IF Y.shape[2] = Xnu.shape[2] THEN Ok(Y)
    ELSE IF Y.shape[2] = X.shape[2] THEN transform(Y, pca, X)
    ELSE IF X.shape[2] # Xnu.shape[2]
    THEN Raise("ValueError", <<"Y must be of shape either (n, {}) or (n, {})",
                               X.shape[2], Xnu.shape[2]>>)
    ELSE Raise("ValueError", <<"Y must be of shape (n, {})", X.shape[2]>>)

\* A faulty extend_to_data that returns the hook's kernel without the row
\* normalisation (every entry over the denominator 1).
extended_unnormalised(c, hx) ==
    IF ~c.ok THEN [res |-> c, calls |-> 0, passed |-> None]
    ELSE [res |-> IF hx.ok
                  THEN Ok([i \in 1..Rows(hx.val.m) |->
                            [j \in 1..Cols(hx.val.m) |->
                               <<hx.val.m[i][j], Fix(1)>>]])
                  ELSE hx,
          calls |-> 1, passed |-> Some(c.val)]

\* DataGraph.extend_to_data after the shape check ended as c; hx is the
\* outcome of the build_kernel_to_data hook.  `passed` is what the hook was
\* called with.
extended(c, hx) ==
    IF ~c.ok THEN [res |-> c, calls |-> 0, passed |-> None]
    ELSE [res |-> IF hx.ok THEN Ok(normalize(hx.val.m)) ELSE hx,
          calls |-> 1, passed |-> Some(c.val)]

\* DataGraph.extend_to_data
extend_to_data(Y, hx, pca, X, Xnu) ==
    LET hooked(c) == extended(c, hx)
    IN  With(_check_extension_shape(Y, pca, X, Xnu), hooked)

\* transitions.dot(transform): transitions holds fractions with one
\* denominator per row, transform holds integers
dot(A, B) ==
    IF Cols(A) # Rows(B)
    THEN Raise("ValueError", <<"shapes not aligned">>)
    ELSE Ok([i \in 1..Rows(A) |-> [c \in 1..Cols(B) |->
                <<SeqSum([k \in 1..Cols(A) |-> A[i][k][1] * B[k][c]]),
                  A[i][1][2]>>]])

\* A faulty interpolate that, given Y, returns the transitions without the
\* product with transform.
interpolated_unmultiplied(t, e) ==
    [res |-> e.res, calls |-> e.calls, passed |-> e.passed]

\* DataGraph.interpolate from `transitions = self.extend_to_data(Y)` on; e is
\* how extend_to_data ended
interpolated(t, e) ==
    [res |-> IF e.res.ok THEN dot(e.res.val, t) ELSE e.res,
     calls |-> e.calls, passed |-> e.passed]

\* DataGraph.interpolate; transitions and Y are None or Some(matrix)
interpolate(t, transitions, Y, hx, pca, X, Xnu) ==
    IF transitions = None
    THEN IF Y = None
         THEN [res |-> Raise("ValueError",
                             <<"Either transitions or Y must be provided.">>),
               calls |-> 0, passed |-> None]
         ELSE LET product(e) == interpolated(t, e)
              IN  With(extend_to_data(Y[1], hx, pca, X, Xnu), product)
    ELSE [res |-> dot(transitions[1], t), calls |-> 0, passed |-> None]

\* the state after a call of the Data or extension layer, which touches no
\* field: r is the outcome with the hook invocations
Answered(op, a, hx, r) ==
    /\ last' = [Called(op, a, r.res, {}, r.calls, hx)
                   EXCEPT !.args = [a |-> a, passed |-> r.passed]]
    /\ UNCHANGED <<phase, data, n_pca, random_state, data_nu, data_pca,
                   kernel_symm, gamma, _kernel, _diff_op, build_calls,
                   build_returns, first_kernel>>

\* the client calls graph.transform(Y)
Call_transform(Y) ==
    /\ Ready
    /\ \E r \in {transform(Y, data_pca, data)} :
          Answered("transform", Y, NoHook,
                   [res |-> r, calls |-> 0, passed |-> None])

\* the client calls graph._check_extension_shape(Y)
Call_check_extension_shape(Y) ==
    /\ Ready
    /\ \E r \in {_check_extension_shape(Y, data_pca, data, data_nu)} :
          Answered("_check_extension_shape", Y, NoHook,
                   [res |-> r, calls |-> 0, passed |-> None])

\* the client calls graph.extend_to_data(Y)
Call_extend_to_data(Y, hx) ==
    /\ Ready
    /\ \E r \in {extend_to_data(Y, hx, data_pca, data, data_nu)} :
          Answered("extend_to_data", Y, hx, r)

\* the client calls graph.interpolate(t, transitions, Y)
Call_interpolate(t, transitions, Y, hx) ==
    /\ Ready
    /\ \E r \in {interpolate(t, transitions, Y, hx, data_pca, data, data_nu)} :
          Answered("interpolate",
                   [transform |-> t, transitions |-> transitions, Y |-> Y],
                   hx, r)

\* interpolate(t, transitions=extend_to_data(Y)): the argument is evaluated
\* first, and an error it raises is the outcome of the whole expression
interpolate_extended(t, e, pca, X, Xnu) ==
    IF e.res.ok
    THEN interpolate(t, Some(e.res.val), None, NoHook, pca, X, Xnu).res
    ELSE e.res

\* the client evaluates interpolate(t, Y=Y) and
\* interpolate(t, transitions=extend_to_data(Y)) on the same Y, the
\* build_kernel_to_data hook answering hx to both invocations; the two
\* outcomes are recorded side by side
Call_interpolate_both(t, Y, hx) ==
    /\ Ready
    /\ \E a \in {interpolate(t, None, Some(Y), hx, data_pca, data, data_nu)} :
       \E e \in {extend_to_data(Y, hx, data_pca, data, data_nu)} :
          Answered("interpolate_both",
                   [transform |-> t, Y |-> Y, by_Y |-> a.res,
                    by_transitions |->
                       interpolate_extended(t, e, data_pca, data, data_nu)],
                   hx, [res |-> a.res, calls |-> a.calls + e.calls,
                        passed |-> a.passed])

----------------------------------------------------------------------------
\* Inputs of the kernel-layer specification.

SymmInputs == ValidSymm \cup {"none"}
GammaInputs == {GNone, GStr} \cup {GNum(x) : x \in {-1, 0, 1, 2, 3}}

KernelArgs ==
    [data : {[shape |-> <<N, 2>>, layout |-> "dense"]},
     n_pca : {None}, random_state : {None},
     kernel_symm : SymmInputs, gamma : GammaInputs,
     initialize : BOOLEAN, fit_ok : {TRUE}]

Init ==
    /\ phase = "new"
    /\ data = None /\ n_pca = None /\ random_state = None
    /\ data_nu = None /\ data_pca = None
    /\ kernel_symm = None /\ gamma = None
    /\ _kernel = None /\ _diff_op = None
    /\ build_calls = 0 /\ build_returns = 0 /\ first_kernel = None
    /\ last = Idle

KernelHooks == HookOutcomes(RawKernels)

Next ==
    \/ /\ phase = "new"
       /\ \E a \in KernelArgs :
            \E h \in (IF a.initialize THEN KernelHooks ELSE {NoHook}) :
               Construct(a, h)
    \/ \E h \in (IF _kernel = None THEN KernelHooks ELSE {NoHook}) : Get_K(h)
    \/ \E h \in (IF _kernel = None THEN KernelHooks ELSE {NoHook}) : Get_P(h)
    \/ \E h \in (IF _kernel = None THEN KernelHooks ELSE {NoHook}) :
         Get_diff_aff(h)
    \/ Continue

Spec == Init /\ [][Next]_vars

----------------------------------------------------------------------------
\* The specification of the parameters: every layout of the data, reduction
\* on and off, both caches empty and populated, and set_params on every
\* subset of the parameter names.

ParamArgs ==
    [data : {[shape |-> <<N, MaxFeatures>>, layout |-> l] : l \in Layouts},
     n_pca : {None, Some(MaxFeatures - 1), Some(MaxFeatures),
              Some(MaxFeatures + 1)},
     random_state : {None, Some(0)},
     kernel_symm : {"+", "gamma"}, gamma : {GNone, GNum(Fix(1))},
     initialize : BOOLEAN, fit_ok : {TRUE}]

\* the keyword arguments of set_params; a name that is not passed holds the
\* first value of its field
ParamInputs ==
    {p \in [names : SUBSET ParamNames,
            n_pca : {None, Some(MaxFeatures - 1)},
            random_state : {None, Some(1)},
            gamma : {GNone, GNum(GammaDefault), GNum(Fix(1))},
            kernel_symm : {"+", "gamma"}] :
        /\ "n_pca" \notin p.names => p.n_pca = None
        /\ "random_state" \notin p.names => p.random_state = None
        /\ "gamma" \notin p.names => p.gamma = GNone
        /\ "kernel_symm" \notin p.names => p.kernel_symm = "+"}

FewHooks == HookOutcomes(FewKernels)

NextParams ==
    \/ /\ phase = "new"
       /\ \E a \in ParamArgs :
            \E h \in (IF a.initialize THEN FewHooks ELSE {NoHook}) :
               Construct(a, h)
    \/ \E h \in (IF _kernel = None THEN FewHooks ELSE {NoHook}) : Get_K(h)
    \/ \E h \in (IF _kernel = None THEN FewHooks ELSE {NoHook}) : Get_P(h)
    \/ /\ Ready
       /\ \E p \in ParamInputs : Call_set_params(p)
    \/ Continue

SpecParams == Init /\ [][NextParams]_vars

----------------------------------------------------------------------------
\* The specification of the Data and extension layers: data of every feature
\* count with every n_pca, new points of every shape, and every outcome of
\* the build_kernel_to_data hook.

\* most rows of a matrix of new points
MaxNew == 2
\* largest sum of the entries of a kernel returned by build_kernel_to_data
MaxMassNew == 3

ExtArgs ==
    [data : {[shape |-> sh, layout |-> l] :
                sh \in {<<N>>} \cup {<<N, f>> : f \in 1..MaxFeatures},
                l \in {"dense", "coo"}},
     n_pca : {None} \cup {Some(k) : k \in 1..MaxFeatures},
     random_state : {None}, kernel_symm : {"+"}, gamma : {GNone},
     initialize : {FALSE}, fit_ok : BOOLEAN]

\* matrices of new points: 1-D, 2-D and 3-D
YInputs ==
    {[shape |-> sh, by |-> "client"] :
        sh \in {<<c>> : c \in 1..MaxFeatures}
               \cup {<<r, c>> : r \in 1..MaxNew, c \in 1..MaxFeatures}
               \cup {<<1, c, 1>> : c \in 1..MaxFeatures}}

\* what build_kernel_to_data may return for r new points: r rows, N columns,
\* non-negative entries
ToDataKernels(r) ==
    {[layout |-> "csr", m |-> m] :
        m \in {x \in [1..r -> [1..N -> KernelEntries]] :
                  SeqSum(RowSums(x)) <= Fix(MaxMassNew)}}

\* the hook raises (the graph does not support extension), or returns
ToDataHooks(r) ==
    {Raise("ValueError", <<"graph cannot be extended">>)}
    \cup {Ok(k) : k \in ToDataKernels(r)}

\* the hook outcomes to draw for extend_to_data(Y): none if the shape check
\* fails
HooksFor(Y) ==
    IF _check_extension_shape(Y, data_pca, data, data_nu).ok
    THEN ToDataHooks(Y.shape[1]) ELSE {NoHook}

\* transforms of the training data: N rows, and one with a row too many
Transforms ==
    [1..N -> [1..1 -> {0, 1}]] \cup {[i \in 1..(N + 1) |-> <<1>>]}

\* transition matrices a client holds
TransitionInputs ==
    UNION {{normalize(k.m) : k \in ToDataKernels(r)} : r \in 1..MaxNew}

\* new points that go with transition matrix tr: as many rows
YFor(tr) == {Y \in YInputs : Len(Y.shape) = 2 /\ Y.shape[1] = Rows(tr)}

NextExt ==
    \/ /\ phase = "new"
       /\ \E a \in ExtArgs : Construct(a, NoHook)
    \/ \E Y \in YInputs : Call_transform(Y)
    \/ \E Y \in YInputs : Call_check_extension_shape(Y)
    \/ /\ Ready
       /\ \E Y \in YInputs : \E hx \in HooksFor(Y) : Call_extend_to_data(Y, hx)
    \/ /\ Ready
       /\ \E t \in Transforms :
            \/ Call_interpolate(t, None, None, NoHook)
            \/ \E Y \in YInputs : \E hx \in HooksFor(Y) :
                  Call_interpolate(t, None, Some(Y), hx)
            \/ \E tr \in TransitionInputs :
                  \/ Call_interpolate(t, Some(tr), None, NoHook)
                  \/ \E Y \in YFor(tr) :
                        Call_interpolate(t, Some(tr), Some(Y), NoHook)
    \/ /\ Ready
       /\ \E t \in Transforms : \E Y \in YInputs : \E hx \in HooksFor(Y) :
             Call_interpolate_both(t, Y, hx)
    \/ Continue

SpecExt == Init /\ [][NextExt]_vars

----------------------------------------------------------------------------
\* Data.inverse_transform.  Here a matrix of points carries its entries:
\* Y = [shape, m], m the rows of a 2-D Y (the entries of a 1-D Y are never
\* read and are left out).  The
\* fitted operator is fit = [components_, mean_]: components_ has
\* n_components rows and one column per ambient feature; mean_ is absent
\* (TruncatedSVD) or holds one entry per ambient feature (PCA).  The model
\* keeps the fitted numbers out of the instance and draws them where they
\* are read.  Column index c of the code (from 0) is c + 1 here.

InverseMessage ==
    "data of shape {} cannot be inverse transformed from graph built on data of shape {}"

\* M[:, columns]
take(M, columns) ==
    [i \in 1..Len(M) |-> [c \in 1..Len(columns) |-> M[i][columns[c]]]]

\* np.dot(A, B) of integer matrices whose shapes are aligned
matmul(A, B) ==
    [i \in 1..Len(A) |-> [c \in 1..Len(B[1]) |->
        SeqSum([j \in 1..Len(B) |-> A[i][j] * B[j][c]])]]

\* M + v, v added to every row; M itself when v is absent
add_mean(M, v) ==
    IF v = None THEN M
    ELSE [i \in 1..Len(M) |-> [c \in 1..Len(M[i]) |-> M[i][c] + v[1][c]]]

\* self.data_pca.inverse_transform(Y): Y times the components, plus the mean
full_inverse(Y, fit) ==
    IF Len(Y.shape) # 2 \/ Y.shape[2] # Len(fit.components_)
    THEN Raise("ValueError", <<"shapes not aligned">>)
    ELSE Ok(add_mean(matmul(Y.m, fit.components_), fit.mean_))

\* A faulty restricted reconstruction that never adds the mean back.
restricted_inverse_without_mean(Y, columns, fit) ==
    IF Len(Y.shape) # 2 \/ Y.shape[2] # Len(fit.components_)
    THEN Raise("ValueError", <<"shapes not aligned">>)
    ELSE Ok(matmul(Y.m, take(fit.components_, columns)))

\* Data.inverse_transform with an operator and columns: the restricted
\* product, plus the mean of those columns when the operator has a mean
restricted_inverse(Y, columns, fit) ==
    IF Len(Y.shape) # 2 \/ Y.shape[2] # Len(fit.components_)
    THEN Raise("ValueError", <<"shapes not aligned">>)
    ELSE Ok(add_mean(matmul(Y.m, take(fit.components_, columns)),
                     IF fit.mean_ = None THEN None
                     ELSE Some([c \in 1..Len(columns) |->
                                  fit.mean_[1][columns[c]]])))

\* the last except clause of Data.inverse_transform: a ValueError raised in
\* the try body becomes the descriptive error
informative(r, Y, Xnu) ==
    IF ~r.ok /\ r.err = "ValueError"
    THEN Raise("ValueError", <<InverseMessage, Y.shape, Xnu.shape>>)
    ELSE r

\* Data.inverse_transform; columns is None or Some(sequence of indices), and
\* an index past the last ambient column is an IndexError
inverse_transform(Y, columns, pca, fit, X, Xnu) ==
    IF pca = None
    THEN IF Len(Y.shape) < 2
         THEN informative(Raise("ValueError", <<>>), Y, Xnu)
         ELSE IF Y.shape[2] # Xnu.shape[2]
         THEN informative(Raise("ValueError", <<>>), Y, Xnu)
         ELSE IF columns = None THEN Ok(Y.m)
         ELSE IF \E c \in 1..Len(columns[1]) : columns[1][c] > Y.shape[2]
         THEN Raise("IndexError", <<"index out of bounds">>)
         ELSE Ok(take(Y.m, columns[1]))
    ELSE IF columns = None THEN informative(full_inverse(Y, fit), Y, Xnu)
    ELSE IF \E c \in 1..Len(columns[1]) : columns[1][c] > n_features(X)
    THEN Raise("IndexError", <<"index out of bounds">>)
    ELSE informative(restricted_inverse(Y, columns[1], fit), Y, Xnu)

\* the client evaluates inverse_transform(Y, columns) and
\* inverse_transform(Y) on the same instance; the two outcomes are recorded
\* side by side
Call_inverse_transform_both(Y, columns, fit) ==
    /\ Ready
    /\ \E r \in {inverse_transform(Y, Some(columns), data_pca, fit, data,
                                   data_nu)} :
          Answered("inverse_transform_both",
                   [Y |-> Y, columns |-> columns, fit |-> fit,
                    full |-> inverse_transform(Y, None, data_pca, fit, data,
                                               data_nu)],
                   NoHook, [res |-> r, calls |-> 0, passed |-> None])

----------------------------------------------------------------------------
\* The specification of inverse_transform: dense and csr data (PCA with a
\* mean, TruncatedSVD without), reduction on and off, reduced-space points
\* of every column count, 1-D points, and column lists with repeated,
\* unordered and out-of-range indices.

\* most columns asked for in one call
MaxColumns == 2

InvArgs ==
    [data : {[shape |-> <<N, f>>, layout |-> l] :
                f \in 1..MaxFeatures, l \in {"dense", "csr"}},
     n_pca : {None} \cup {Some(k) : k \in 1..MaxFeatures},
     random_state : {None}, kernel_symm : {"+"}, gamma : {GNone},
     initialize : {FALSE}, fit_ok : {TRUE}]

\* what the library's fit may have stored for operator pca on data X: three
\* component matrices whose columns differ, and for PCA a mean whose entries
\* differ
Fits(pca, X) ==
    IF pca = None THEN {[components_ |-> <<>>, mean_ |-> None]}
    ELSE {[components_ |-> comp,
           mean_ |-> IF pca[1].kind = "PCA"
                     THEN Some([j \in 1..n_features(X) |-> 2 * j - 3])
                     ELSE None] :
            comp \in {[i \in 1..pca[1].n_components |->
                          [j \in 1..n_features(X) |-> i + j]],
                      [i \in 1..pca[1].n_components |->
                          [j \in 1..n_features(X) |-> IF i = j THEN 1 ELSE 0]],
                      [i \in 1..pca[1].n_components |->
                          [j \in 1..n_features(X) |-> i * j - 2]]}}

\* points in reduced space: one row with entries in {-1, 1} and every column
\* count, and 1-D points when there is no operator (what the library's
\* inverse_transform does with a 1-D Y is not in this repository)
InvPoints(pca) ==
    UNION {{[shape |-> <<1, c>>, m |-> <<row>>] : row \in [1..c -> {-1, 1}]} :
              c \in 1..MaxFeatures}
    \cup (IF pca = None
          THEN {[shape |-> <<c>>, m |-> <<>>] : c \in 1..MaxFeatures}
          ELSE {})

\* column lists: indices of ambient columns, and one past the last
ColumnInputs(X) ==
    UNION {[1..n -> 1..(n_features(X) + 1)] : n \in 1..MaxColumns}

NextInverse ==
    \/ /\ phase = "new"
       /\ \E a \in InvArgs : Construct(a, NoHook)
    \/ /\ Ready
       /\ \E Y \in InvPoints(data_pca) : \E columns \in ColumnInputs(data) :
             \E fit \in Fits(data_pca, data) :
                Call_inverse_transform_both(Y, columns, fit)
    \/ Continue

SpecInverse == Init /\ [][NextInverse]_vars

----------------------------------------------------------------------------
\* Properties of the kernel layer.

Accessors == {"K", "P", "diff_aff"}
WarnDiagonal == "K should have a non-zero diagonal"

\* max |m - m.T| <= 1e-5
SymmetricWithinTol(m) ==
    \A i \in 1..Rows(m) : \A j \in 1..Cols(m) :
        Abs(m[i][j] - m[j][i]) * SymTolInverse <= Fix(1)

\* the last call invoked build_kernel and the hook returned a kernel
Built == last.calls = 1 /\ last.hook.ok /\ last.op \in Accessors \cup {"__init__"}

\* C1 as stated: on one instance the build_kernel hook is invoked at most
\* once, during construction when initialize is true and otherwise on the
\* first access that needs K, and every later access to K returns the matrix
\* stored by the first computation.
C1_AtMostOneInvocation ==
    /\ build_calls <= 1
    /\ (last.op = "__init__" /\ last.res.ok) =>
          /\ last.args.initialize => (build_calls = 1 /\ _kernel # None)
          /\ ~last.args.initialize => (build_calls = 0 /\ _kernel = None)
    /\ (last.op = "K" /\ last.res.ok) =>
          (_kernel = first_kernel /\ last.res.val = first_kernel[1])

\* C1 (amended): a kernel is computed and stored at most once, and the
\* build_kernel hook is never invoked once a kernel is stored (an access
\* during which the computation raises stores nothing, and the next access
\* that needs K invokes the hook again).  The hook is invoked during
\* construction when initialize is true, otherwise by the first access that
\* needs K; the stored kernel never changes and every later access to K
\* returns it.
C1_AtMostOneKernel ==
    /\ [](/\ build_returns <= 1
          /\ (build_returns = 1) <=> (_kernel # None)
          /\ _kernel = first_kernel
          /\ (last.op = "__init__" /\ last.res.ok) =>
                /\ last.args.initialize =>
                      (build_calls = 1 /\ _kernel # None)
                /\ ~last.args.initialize =>
                      (build_calls = 0 /\ _kernel = None)
          /\ (last.op = "K" /\ last.res.ok) =>
                last.res.val = first_kernel[1])
    /\ [][/\ _kernel # None =>
                (_kernel' = _kernel /\ build_calls' = build_calls)
          /\ (phase = "live" /\ _kernel = None /\ last'.op \in Accessors) =>
                (last'.calls = 1 /\ build_calls' = build_calls + 1)]_vars

\* C1 witness: the hook raised once, returned a kernel at the second
\* invocation, and a later read of K was served from the cache
C1_Witness ==
    /\ last.op = "K" /\ last.res.ok /\ last.calls = 0
    /\ build_calls = 2 /\ build_returns = 1

\* C4: the cached kernel is symmetric within 1e-5 under the '+', '*' and
\* 'gamma' policies, and is the raw kernel the hook returned under the none
\* policy.
C4_CachedKernelSymmetric ==
    /\ (_kernel # None /\ kernel_symm \in {"+", "*", "gamma"}) =>
          SymmetricWithinTol(_kernel[1].m)
    /\ (Built /\ last.res.ok /\ kernel_symm = SymmNone) =>
          _kernel = Some(last.hook.val)

\* C4 witness: an asymmetric raw kernel was symmetrized and cached
C4_Witness ==
    /\ Built /\ last.res.ok /\ kernel_symm \in {"+", "*", "gamma"}
    /\ ~SymmetricWithinTol(last.hook.val.m)
    /\ _kernel # None

\* the arguments pass Data.__init__, so that BaseGraph.__init__ is reached
DataAccepted(a) == Len(a.data.shape) = 2 /\ a.fit_ok

InUnitInterval(g) == g.kind = "num" /\ g.v >= Fix(0) /\ g.v <= Fix(1)

C6_ZeroDiagonalWarning ==
    (last.op = "K" /\ last.calls = 1 /\ last.res.ok) =>
        /\ (WarnDiagonal \in last.warns) <=>
              (\E i \in 1..N : last.res.val.m[i][i] = 0)
        /\ _kernel = Some(last.res.val)

\* the entries of row i of P are those of row i of kernel matrix m divided
\* by the sum s of that row
RowNormalised(prow, krow) ==
    LET s == SeqSum(krow)
    IN  IF s = 0
        THEN \A j \in 1..Len(prow) : prow[j][1] = 0
        ELSE /\ \A j \in 1..Len(prow) :
                   prow[j][1] * s = krow[j] * prow[j][2]
             /\ SeqSum([j \in 1..Len(prow) |-> prow[j][1]]) = prow[1][2]

\* C8: P is the row-wise L1 normalisation of the cached K (a row with
\* non-zero sum sums to 1, an all-zero row stays zero), computed by the first
\* access to P and stored in its own cache; later accesses return the stored
\* matrix, and accessing K or diff_aff never populates the P cache.
C8_DiffusionOperator ==
    /\ [](/\ _diff_op # None =>
                /\ _kernel # None
                /\ \A i \in 1..N :
                      /\ Len(_diff_op[1][i]) = N
                      /\ \A j \in 1..N : _diff_op[1][i][j][2] > 0
                      /\ RowNormalised(_diff_op[1][i], _kernel[1].m[i])
          /\ (last.op = "P" /\ last.res.ok) =>
                _diff_op = Some(last.res.val)
          /\ (last.op = "P" /\ ~last.res.ok) => _diff_op = None)
    /\ [][/\ _diff_op # None => _diff_op' = _diff_op
          /\ last'.op \in {"K", "diff_aff"} => _diff_op' = _diff_op]_vars

\* C8 witness: P was computed from a kernel with a zero row and a non-zero
\* row, and a later access returned the stored matrix
C8_Witness ==
    /\ last.op = "P" /\ last.res.ok /\ last.calls = 0
    /\ \E i \in 1..N : SeqSum(_kernel[1].m[i]) = 0
    /\ \E i \in 1..N : SeqSum(_kernel[1].m[i]) > Fix(1)

----------------------------------------------------------------------------
\* Properties of the parameters.

\* the keyword arguments p change n_pca, gamma or kernel_symm
ChangesFixedParam(p) ==
    \/ "n_pca" \in p.names /\ p.n_pca # n_pca
    \/ "gamma" \in p.names /\ p.gamma # gamma
    \/ "kernel_symm" \in p.names /\ p.kernel_symm # kernel_symm

\* C2: a set_params call whose arguments hold a changed n_pca, gamma or
\* kernel_symm, whatever else it passes, fails with an explicit error and
\* leaves n_pca, random_state, kernel_symm, gamma and both caches as they
\* were.
C2_SetParamsRejectsUnchanged ==
    [][(last'.op = "set_params" /\ ChangesFixedParam(last'.args)) =>
          /\ ~last'.res.ok
          /\ last'.res.err = "ValueError"
          /\ last'.res.msg # <<>>
          /\ UNCHANGED <<n_pca, random_state, kernel_symm, gamma, _kernel,
                         _diff_op>>]_vars

----------------------------------------------------------------------------
\* Properties of the Data and extension layers.

TransformMessage ==
    "data of shape {} cannot be transformed to graph built on data of shape {}"

\* C3: transform(Y) fails with the shape-mismatch error that reports Y's
\* shape and the data's shape whenever Y has fewer than two axes or another
\* feature count than the data, with and without a reduction operator, and no
\* error it raises is without a message.
C3_TransformDescriptiveError ==
    last.op = "transform" =>
        LET Y == last.args.a
        IN  /\ (Len(Y.shape) < 2 \/ Y.shape[2] # data.shape[2]) =>
                  /\ ~last.res.ok
                  /\ last.res.err = "ValueError"
                  /\ last.res.msg = <<TransformMessage, Y.shape, data.shape>>
            /\ ~last.res.ok => last.res.msg # <<>>

\* C7: interpolate takes exactly one of transitions and Y: with neither it
\* fails with an explicit error and invokes no hook, with Y alone it goes
\* through extend_to_data (shape check, then the hook), and with both the
\* call is not accepted.
C7_InterpolateExactlyOne ==
    last.op = "interpolate" =>
        LET a == last.args.a
        IN  /\ (a.transitions = None /\ a.Y = None) =>
                  (~last.res.ok /\ last.res.err = "ValueError"
                   /\ last.res.msg # <<>> /\ last.calls = 0)
            /\ (a.transitions = None /\ a.Y # None) =>
                  (last.calls = 1) <=>
                      (/\ Len(a.Y[1].shape) = 2
                       /\ a.Y[1].shape[2] \in {data.shape[2], data_nu.shape[2]})
            /\ (a.transitions # None /\ a.Y # None) => ~last.res.ok

\* Y is 2-D and has the reduced or the ambient feature count
Extensible(Y) ==
    /\ Len(Y.shape) = 2
    /\ Y.shape[2] \in {data_nu.shape[2], data.shape[2]}

\* C9: _check_extension_shape(Y) fails with a shape error unless Y is 2-D;
\* returns Y itself when Y has the reduced feature count; otherwise returns
\* transform(Y) when Y has the ambient feature count; otherwise fails with an
\* error naming the acceptable feature counts.  What it returns has the
\* reduced feature count.
C9_CheckExtensionShape ==
    last.op = "_check_extension_shape" =>
        LET Y == last.args.a
            r == last.res
        IN  /\ Len(Y.shape) # 2 =>
                  (~r.ok /\ r.err = "ValueError"
                   /\ r.msg = <<"Expected a 2D matrix. Y has shape {}", Y.shape>>)
            /\ (Len(Y.shape) = 2 /\ Y.shape[2] = data_nu.shape[2]) =>
                  (r.ok /\ r.val = Y)
            /\ (Len(Y.shape) = 2 /\ Y.shape[2] # data_nu.shape[2]
                /\ Y.shape[2] = data.shape[2]) =>
                  (/\ r = transform(Y, data_pca, data)
                   /\ r.ok /\ r.val.by = "data_pca"
                   /\ r.val.shape = <<Y.shape[1], n_pca[1]>>)
            /\ (Len(Y.shape) = 2 /\ ~Extensible(Y)) =>
                  (/\ ~r.ok /\ r.err = "ValueError"
                   /\ r.msg =
                        IF data_pca # None
                        THEN <<"Y must be of shape either (n, {}) or (n, {})",
                               data.shape[2], data_nu.shape[2]>>
                        ELSE <<"Y must be of shape (n, {})", data.shape[2]>>)
            /\ r.ok => (Len(r.val.shape) = 2
                        /\ r.val.shape[2] = data_nu.shape[2])

\* C9 witness: a Y of ambient feature count was projected by the operator
C9_Witness ==
    /\ last.op = "_check_extension_shape" /\ last.res.ok
    /\ last.res.val.by = "data_pca"
    /\ last.args.a.shape[2] = data.shape[2]

\* C10: extend_to_data(Y) checks the shape first, then invokes
\* build_kernel_to_data exactly once with the checked Y, then returns the
\* row-wise L1 normalisation of what the hook returned (n_new x n_samples).
\* If the shape check fails the hook is not invoked; no call stores
\* anything, so every call that passes the shape check invokes the hook.
C10_ExtendToData ==
    /\ [](last.op = "extend_to_data" =>
            LET Y == last.args.a
                r == last.res
            IN  /\ ~Extensible(Y) =>
                      (~r.ok /\ last.calls = 0 /\ last.args.passed = None)
                /\ Extensible(Y) =>
                      /\ last.calls = 1
                      /\ last.args.passed # None
                      /\ last.args.passed[1].shape =
                            <<Y.shape[1], data_nu.shape[2]>>
                      /\ Y.shape[2] = data_nu.shape[2] =>
                            last.args.passed[1] = Y
                /\ r.ok =>
                      /\ last.hook.ok
                      /\ Rows(r.val) = Y.shape[1]
                      /\ \A i \in 1..Rows(r.val) :
                            /\ Len(r.val[i]) = N
                            /\ RowNormalised(r.val[i], last.hook.val.m[i]))
    /\ [][last'.op = "extend_to_data" =>
            UNCHANGED <<data, n_pca, random_state, data_nu, data_pca,
                        kernel_symm, gamma, _kernel, _diff_op>>]_vars

\* C10 witness: a Y that had to be projected was extended, and the hook's
\* kernel had a zero row and a row of sum 3
C10_Witness ==
    /\ last.op = "extend_to_data" /\ last.res.ok
    /\ last.args.passed[1].by = "data_pca"
    /\ \E i \in 1..Rows(last.hook.val.m) : SeqSum(last.hook.val.m[i]) = 0
    /\ \E i \in 1..Rows(last.hook.val.m) :
          SeqSum(last.hook.val.m[i]) = Fix(3)

\* the product of the row normalisation of kernel matrix k with transform t:
\* entry (i, c) is the sum over j of k[i][j] * t[j][c], over the sum of row i
\* of k (over 1 when that row is zero)
IsTransitionProduct(p, k, t) ==
    /\ Len(p) = Rows(k)
    /\ \A i \in 1..Rows(k) :
          /\ Len(p[i]) = Cols(t)
          /\ \A c \in 1..Cols(t) :
                /\ p[i][c][1] = SeqSum([j \in 1..Rows(t) |-> k[i][j] * t[j][c]])
                /\ p[i][c][2] = IF SeqSum(k[i]) = 0 THEN Fix(1)
                                ELSE SeqSum(k[i])

\* C11: for every transform and every new-point matrix Y,
\* interpolate(transform, Y=Y) and
\* interpolate(transform, transitions=extend_to_data(Y)) end alike, and when
\* they return, both return the matrix product of the transition matrix (the
\* row-normalised kernel the hook returned for Y) with transform.
C11_InterpolateEntryPoints ==
    last.op = "interpolate_both" =>
        LET a == last.args.a
        IN  /\ a.by_Y = a.by_transitions
            /\ a.by_Y = last.res
            /\ last.res.ok =>
                  /\ last.hook.ok
                  /\ IsTransitionProduct(last.res.val, last.hook.val.m,
                                         a.transform)
                  /\ IsTransitionProduct(a.by_transitions.val,
                                         last.hook.val.m, a.transform)

\* C11 witness: both entry points returned a product with a non-zero entry
\* for a Y of two rows that had to be projected first
C11_Witness ==
    /\ last.op = "interpolate_both" /\ last.res.ok
    /\ last.args.a.by_transitions.ok
    /\ last.args.passed[1].by = "data_pca"
    /\ Rows(last.res.val) = 2
    /\ \E i \in 1..2 : last.res.val[i][1][1] > 0

----------------------------------------------------------------------------
\* Properties of the reduction.

\* the input after the sparse-layout normalisation of _reduce_data
AsReducedLayout(X) == IF X.layout = "coo" THEN [X EXCEPT !.layout = "csr"] ELSE X

\* C12: constructing with an n_pca greater than or equal to the ambient
\* feature count does not raise (the build_kernel hook apart): it warns,
\* forces n_pca to none, fits no reduction operator and stores the input,
\* after the sparse-layout normalisation, as the reduced data.  In every
\* state of an instance n_pca is none or less than the ambient feature
\* count, and a reduction operator exists exactly when n_pca is not none.
C12_NoReductionFallback ==
    /\ (/\ last.op = "__init__"
        /\ Len(last.args.data.shape) = 2
        /\ last.args.n_pca # None
        /\ last.args.n_pca[1] >= last.args.data.shape[2]) =>
          /\ last.res.ok \/ (last.args.initialize /\ last.calls = 1)
          /\ last.res.ok =>
                /\ "Cannot perform PCA" \in last.warns
                /\ n_pca = None
                /\ data_pca = None
                /\ data = last.args.data
                /\ data_nu = AsReducedLayout(last.args.data)
    /\ phase = "live" =>
          /\ n_pca = None \/ n_pca[1] < data.shape[2]
          /\ (data_pca # None) <=> (n_pca # None)

\* C12 witness: a construction on coo data with n_pca equal to the feature
\* count returned, with the warning, no operator and csr reduced data
C12_Witness ==
    /\ last.op = "__init__" /\ last.res.ok /\ phase = "live"
    /\ last.args.n_pca = Some(last.args.data.shape[2])
    /\ last.args.data.layout = "coo" /\ data_nu.layout = "csr"
    /\ "Cannot perform PCA" \in last.warns
    /\ n_pca = None /\ data_pca = None

----------------------------------------------------------------------------
\* Properties of inverse_transform.

\* C13: for every reduced-space Y of the right column count and every list
\* of ambient column indices, inverse_transform(Y, columns) returns exactly
\* those columns of inverse_transform(Y): without reduction Y restricted to
\* the columns, with reduction Y times the stored components restricted to
\* the columns, plus the stored mean of those columns when the operator has
\* a mean.
C13_InverseTransformColumns ==
    (/\ last.op = "inverse_transform_both"
     /\ Len(last.args.a.Y.shape) = 2
     /\ last.args.a.Y.shape[2] = data_nu.shape[2]
     /\ \A c \in 1..Len(last.args.a.columns) :
           last.args.a.columns[c] <= data.shape[2]) =>
        LET Y == last.args.a.Y
            columns == last.args.a.columns
            fit == last.args.a.fit
            full == last.args.a.full
            r == last.res
        IN  /\ r.ok /\ full.ok
            /\ Len(r.val) = Y.shape[1]
            /\ \A i \in 1..Y.shape[1] :
                  /\ Len(r.val[i]) = Len(columns)
                  /\ Len(full.val[i]) = data.shape[2]
                  /\ \A c \in 1..Len(columns) :
                        /\ r.val[i][c] = full.val[i][columns[c]]
                        /\ data_pca = None =>
                              r.val[i][c] = Y.m[i][columns[c]]
                        /\ data_pca # None =>
                              r.val[i][c] =
                                 SeqSum([j \in 1..Y.shape[2] |->
                                    Y.m[i][j] * fit.components_[j][columns[c]]])
                                 + (IF fit.mean_ = None THEN 0
                                    ELSE fit.mean_[1][columns[c]])

\* C13 witness: two columns, out of order, were reconstructed through an
\* operator that has a non-zero mean
C13_Witness ==
    /\ last.op = "inverse_transform_both" /\ last.res.ok
    /\ last.args.a.full.ok
    /\ data_pca # None /\ last.args.a.fit.mean_ # None
    /\ Len(last.args.a.columns) = 2
    /\ last.args.a.columns[1] > last.args.a.columns[2]
    /\ last.res.val[1][1] # last.res.val[1][2]

\* C13 witness of the other case: columns taken from Y itself, no operator
C13_WitnessNoReduction ==
    /\ last.op = "inverse_transform_both" /\ last.res.ok
    /\ data_pca = None /\ Len(last.args.a.columns) = 2
    /\ last.res.val[1][1] # last.res.val[1][2]

----------------------------------------------------------------------------
\* Properties of the symmetrization.

\* entry (i, j) of kernel matrix k is the policy ks, with gamma g, applied to
\* entries (i, j) and (j, i) of the raw kernel r; the numbers are stored
\* doubled, so the equations are those of the spec multiplied through
PolicyEntry(k, r, ks, g, i, j) ==
    CASE ks = "+" -> 2 * k[i][j] = r[i][j] + r[j][i]
      [] ks = "*" -> 2 * k[i][j] = r[i][j] * r[j][i]
      [] ks = "gamma" ->
           /\ 2 * k[i][j] = g.v * Min2(r[i][j], r[j][i])
                             + (Fix(1) - g.v) * Max2(r[i][j], r[j][i])
           /\ g.v = Fix(1) => k[i][j] = Min2(r[i][j], r[j][i])
           /\ g.v = Fix(0) => k[i][j] = Max2(r[i][j], r[j][i])
      [] ks = SymmNone -> k[i][j] = r[i][j]

\* C14: whenever the build_kernel hook returns a square raw kernel R to an
\* instance, the kernel that is cached is the policy held by the instance
\* applied to R entry by entry: (R[i,j] + R[j,i]) / 2 for '+',
\* R[i,j] * R[j,i] for '*', gamma * min + (1 - gamma) * max for 'gamma' (the
\* minimum for gamma = 1, the maximum for gamma = 0), R[i,j] for none.
C14_SymmetrizationFormulas ==
    (/\ phase = "live"
     /\ last.op \in Accessors \cup {"__init__"}
     /\ last.calls = 1 /\ last.hook.ok) =>
        /\ _kernel # None
        /\ \A i \in 1..N : \A j \in 1..N :
              PolicyEntry(_kernel[1].m, last.hook.val.m, kernel_symm, gamma,
                          i, j)

\* C14 holds for the raw kernels that support the policy: every kernel
\* under '+', 'gamma' and none, and the sparse kernels under '*'
C14_ExceptDenseMultiplicative ==
    (/\ phase = "live"
     /\ last.op \in Accessors \cup {"__init__"}
     /\ last.calls = 1 /\ last.hook.ok
     /\ ~(kernel_symm = "*" /\ last.hook.val.layout = "dense")) =>
        /\ _kernel # None
        /\ \A i \in 1..N : \A j \in 1..N :
              PolicyEntry(_kernel[1].m, last.hook.val.m, kernel_symm, gamma,
                          i, j)

----------------------------------------------------------------------------
\* Properties of a failing build_kernel hook.

\* the last call was an access during which the hook was invoked and raised
HookRaised == last.op \in Accessors /\ last.calls = 1 /\ ~last.hook.ok

\* the last call was an access during which the hook was invoked and
\* returned a kernel
HookReturned == last.op \in Accessors /\ last.calls = 1 /\ last.hook.ok

\* C15: when the build_kernel hook raises during an access to K, P or
\* diff_aff, the caller gets that error and both caches stay empty; the next
\* access invokes the hook again; and once an invocation of the hook has
\* succeeded the kernel is there and the hook is never invoked again.
C15_HookFailureRetry ==
    /\ [](/\ HookRaised =>
                (last.res = last.hook /\ _kernel = None /\ _diff_op = None)
          /\ HookReturned => _kernel # None)
    /\ [][/\ (phase = "live" /\ _kernel = None /\ last'.op \in Accessors) =>
                (last'.calls = 1 /\ build_calls' = build_calls + 1)
          /\ _kernel # None => build_calls' = build_calls]_vars

\* C15 holds when the raw kernel supports the policy: what is left out is
\* the hook returning a dense kernel under '*'
C15_ExceptDenseMultiplicative ==
    /\ [](/\ HookRaised =>
                (last.res = last.hook /\ _kernel = None /\ _diff_op = None)
          /\ (HookReturned
              /\ ~(kernel_symm = "*" /\ last.hook.val.layout = "dense")) =>
                _kernel # None)
    /\ [][/\ (phase = "live" /\ _kernel = None /\ last'.op \in Accessors) =>
                (last'.calls = 1 /\ build_calls' = build_calls + 1)
          /\ _kernel # None => build_calls' = build_calls]_vars

====
